---- MODULE Spec2Model ----
(***************************************************************************)
(* Model of the GET /insights/anomalies handler of src/app.py: the query   *)
(* parameter validation, the peer-statistics SQL query and its result.     *)
(*                                                                         *)
(* Real numbers are represented exactly.  A rational is a record [n, d] in *)
(* lowest terms with d > 0.  A non-negative root (std_kwh) is represented  *)
(* by its square, [sq |-> rational].  A zscore is a signed root            *)
(* [err, sgn, sq]: the number sgn * sqrt(sq).  Floating-point rounding is  *)
(* not modelled.                                                           *)
(*                                                                         *)
(* The threshold z is an integer count of 1/ZDen units.                    *)
(* The asset_id of a row is its index in the table.  The location columns  *)
(* building, floor and zone are copied through by the query and are left   *)
(* out.                                                                    *)
(***************************************************************************)
EXTENDS Integers, Sequences, FiniteSets, TLC

VARIABLES assets, req, arg, resp, repeated

vars == <<assets, req, arg, resp, repeated>>

----------------------------------------------------------------------------
(* Bounds of the model *)

MaxRows == 3
MaxExtra == 2
PadLen == 50
MaxShift == 0
ZDen == 2

(* Program constants *)

ZDefaultUnits == 2
ZMinUnits == 0
ZMaxUnits == 10
Limit == 50

ZDefault == ZDefaultUnits * ZDen
ZMin == ZMinUnits * ZDen
ZMax == ZMaxUnits * ZDen

----------------------------------------------------------------------------
(* Exact arithmetic *)

Abs(x) == IF x < 0 THEN -x ELSE x

Sign(x) == IF x < 0 THEN -1 ELSE IF x = 0 THEN 0 ELSE 1

Min(a, b) == IF a < b THEN a ELSE b

RECURSIVE GCD(_, _)
GCD(a, b) == IF b = 0 THEN a ELSE GCD(b, a % b)

\* the rational n/d in lowest terms, d # 0
Rat(n, d) ==
  LET g == GCD(Abs(n), Abs(d))
      s == IF d < 0 THEN -1 ELSE 1
  IN [n |-> s * (n \div g), d |-> s * (d \div g)]

RatOfInt(k) == [n |-> k, d |-> 1]

RatSub(a, b) == Rat(a.n * b.d - b.n * a.d, a.d * b.d)

RatSq(a) == [n |-> a.n * a.n, d |-> a.d * a.d]

\* a / b for b # 0, cancelling common factors before multiplying
RatDiv(a, b) ==
  LET g1 == GCD(Abs(a.n), Abs(b.n))
      g2 == GCD(a.d, b.d)
      h1 == IF g1 = 0 THEN 1 ELSE g1
  IN Rat((a.n \div h1) * (b.d \div g2), (a.d \div g2) * (b.n \div h1))

\* a/b < c/d for a, c >= 0 and b, d > 0, by continued fractions (no products)
RECURSIVE FracLess(_, _, _, _)
FracLess(a, b, c, d) ==
  LET qa == a \div b
      qc == c \div d
      ra == a % b
      rc == c % d
  IN IF qa # qc THEN qa < qc
     ELSE IF rc = 0 THEN FALSE
     ELSE IF ra = 0 THEN TRUE
     ELSE FracLess(d, rc, b, ra)

RatLess(a, b) == FracLess(a.n, a.d, b.n, b.d)

Sqrt(r) == [sq |-> r]

ZeroScore == [err |-> FALSE, sgn |-> 0, sq |-> RatOfInt(0)]

DivisionByZero == [err |-> TRUE, sgn |-> 0, sq |-> RatOfInt(0)]

\* x / s for a rational x and a root s; the division fails when s = 0
DivByRoot(x, s) ==
  IF s.sq.n = 0 THEN DivisionByZero
  ELSE [err |-> FALSE, sgn |-> Sign(x.n), sq |-> RatDiv(RatSq(x), s.sq)]

\* ABS(zs) >= z / ZDen
AbsGeq(zs, z) == z <= 0 \/ ~RatLess(zs.sq, [n |-> z * z, d |-> ZDen * ZDen])

\* ABS(z1) > ABS(z2)
AbsGreater(z1, z2) == RatLess(z2.sq, z1.sq)

----------------------------------------------------------------------------
(* The assets table *)

AssetTypes == {"HVAC", "LIGHT"}

\* <<actual_active_hours, energy_consumed_per_hour>>
Readings == {<<1, 10>>, <<10, 1>>, <<10, 10>>}

Row(ty, rd) ==
  [asset_type |-> ty, actual_active_hours |-> rd[1],
   energy_consumed_per_hour |-> rd[2]]

\* the rows a snapshot is drawn from: actual_energy 10 (in two ways) or 100
Rows ==
  {Row(ty, rd) : ty \in AssetTypes, rd \in Readings}
    \ {Row("LIGHT", <<10, 1>>)}

TablesOver(R, k) == UNION {[1..n -> R] : n \in 0..k}

\* snapshots of at most MaxRows assets
SmallTables == TablesOver(Rows, MaxRows)

\* snapshots of more than 50 assets: at most MaxExtra assets, then PadLen
\* assets of category HVAC that repeat a pattern
ExtraRows ==
  {Row("HVAC", <<10, 10>>), Row("LIGHT", <<1, 10>>), Row("LIGHT", <<10, 10>>)}

PadPatterns ==
  { <<Row("HVAC", <<1, 10>>)>>,
    <<Row("HVAC", <<1, 10>>), Row("HVAC", <<10, 1>>),
      Row("HVAC", <<10, 10>>)>> }

Pad(p) == [i \in 1..PadLen |-> p[((i - 1) % Len(p)) + 1]]

BigTables ==
  {x \o Pad(p) : x \in TablesOver(ExtraRows, MaxExtra), p \in PadPatterns}

----------------------------------------------------------------------------
(* The SQL query of anomalies() *)

\* a relation the executor computes once (the function f, fully evaluated)
Materialized(f) == f @@ << >>

ActualKwh(a) == a.actual_active_hours * a.energy_consumed_per_hour

RECURSIVE CountOf(_, _, _)
CountOf(t, ty, i) ==
  IF i = 0 THEN 0
  ELSE (IF t[i].asset_type = ty THEN 1 ELSE 0) + CountOf(t, ty, i - 1)

RECURSIVE SumOf(_, _, _)
SumOf(t, ty, i) ==
  IF i = 0 THEN 0
  ELSE (IF t[i].asset_type = ty THEN ActualKwh(t[i]) ELSE 0)
       + SumOf(t, ty, i - 1)

RECURSIVE SumSqOf(_, _, _)
SumSqOf(t, ty, i) ==
  IF i = 0 THEN 0
  ELSE (IF t[i].asset_type = ty THEN ActualKwh(t[i]) * ActualKwh(t[i]) ELSE 0)
       + SumSqOf(t, ty, i - 1)

\* mutant of AvgKwh: AVG over the whole table, without GROUP BY asset_type
AvgKwhUngrouped(t, ty) ==
  LET f[n \in 0..Len(t)] == IF n = 0 THEN 0 ELSE f[n - 1] + ActualKwh(t[n])
  IN Rat(f[Len(t)], Len(t))

\* AVG(actual_active_hours * energy_consumed_per_hour) of the group ty
AvgKwh(t, ty) == Rat(SumOf(t, ty, Len(t)), CountOf(t, ty, Len(t)))

\* mutant of StddevPop: STDDEV_SAMP, which divides by N - 1
StddevSamp(t, ty) ==
  LET n == CountOf(t, ty, Len(t))
      s == SumOf(t, ty, Len(t))
      q == SumSqOf(t, ty, Len(t))
  IN IF n = 1 THEN Sqrt(RatOfInt(0))
     ELSE Sqrt(Rat(n * q - s * s, n * (n - 1)))

\* STDDEV_POP(actual_active_hours * energy_consumed_per_hour) of the group ty
StddevPop(t, ty) ==
  LET n == CountOf(t, ty, Len(t))
      s == SumOf(t, ty, Len(t))
      q == SumSqOf(t, ty, Len(t))
  IN Sqrt(Rat(n * q - s * s, n * n))

\* WITH peer AS (SELECT ... FROM assets GROUP BY asset_type)
Peer(t) ==
  Materialized([ty \in {t[i].asset_type : i \in DOMAIN t} |->
                  [avg_kwh |-> AvgKwh(t, ty), std_kwh |-> StddevPop(t, ty)]])

\* mutant of ZScoreExpr: the division without the CASE guard
ZScoreUnguarded(a, p) ==
  DivByRoot(RatSub(RatOfInt(ActualKwh(a)), p.avg_kwh), p.std_kwh)

\* CASE WHEN p.std_kwh > 0 THEN (actual_kwh - p.avg_kwh) / p.std_kwh ELSE 0 END
ZScoreExpr(a, p) ==
  IF p.std_kwh.sq.n > 0
  THEN DivByRoot(RatSub(RatOfInt(ActualKwh(a)), p.avg_kwh), p.std_kwh)
  ELSE ZeroScore

\* FROM assets a JOIN peer p USING (asset_type), with the select list
Joined(t) ==
  LET peer == Peer(t)
  IN Materialized(
       [i \in DOMAIN t |->
          [asset_id |-> i,
           asset_type |-> t[i].asset_type,
           actual_kwh |-> ActualKwh(t[i]),
           avg_kwh |-> peer[t[i].asset_type].avg_kwh,
           std_kwh |-> peer[t[i].asset_type].std_kwh,
           zscore |-> ZScoreExpr(t[i], peer[t[i].asset_type])]])

\* mutant of WherePasses: the default threshold in place of $1
WherePassesDefault(r, z) == AbsGeq(r.zscore, ZDefault)

\* mutant of WherePasses: the comparison reversed, ABS(CASE ...) <= $1
WherePassesBelow(r, z) ==
  z >= 0 /\ ~RatLess([n |-> z * z, d |-> ZDen * ZDen], r.zscore.sq)

\* WHERE ABS(CASE ...) >= $1
WherePasses(r, z) == AbsGeq(r.zscore, z)

\* mutant of OrderBefore: ORDER BY the signed zscore, without ABS
OrderBeforeSigned(r1, r2) ==
  IF r1.zscore.sgn # r2.zscore.sgn THEN r1.zscore.sgn > r2.zscore.sgn
  ELSE IF r1.zscore.sgn = 1 THEN AbsGreater(r1.zscore, r2.zscore)
  ELSE AbsGreater(r2.zscore, r1.zscore)

\* ORDER BY ABS(CASE ...) DESC: r1 is placed strictly before r2
OrderBefore(r1, r2) == AbsGreater(r1.zscore, r2.zscore)

\* The order in which the executor produces the rows of the table.  SQL
\* leaves it unspecified; it decides the order of the peers of ORDER BY.
ScanOrder(n, shift, rev) ==
  [k \in 1..n |->
     LET j == ((k - 1 + shift) % n) + 1
     IN IF rev THEN n + 1 - j ELSE j]

\* the rows of the scan that pass the WHERE clause, in scan order
Filter(j, so, z) == SelectSeq(so, LAMBDA i : WherePasses(j[i], z))

\* mutant of Sorted: no ORDER BY, the rows stay in scan order
Unsorted(j, kept) == kept

\* a row of the set S that ORDER BY places before all rows it is not tied with
FirstOf(j, S) == CHOOSE a \in S : \A b \in S : ~OrderBefore(j[b], j[a])

\* the rows kept, ordered by ORDER BY; rows that tie stay in scan order
RECURSIVE Sorted(_, _)
Sorted(j, kept) ==
  IF kept = << >> THEN << >>
  ELSE LET top == FirstOf(j, {kept[k] : k \in DOMAIN kept})
           tied(i) == ~OrderBefore(j[top], j[i])
       IN SelectSeq(kept, tied)
          \o Sorted(j, SelectSeq(kept, LAMBDA i : ~tied(i)))

\* mutant of Truncate: the limit off by one
TruncateOneMore(s) == SubSeq(s, 1, Min(Limit + 1, Len(s)))

\* LIMIT 50
Truncate(s) == SubSeq(s, 1, Min(Limit, Len(s)))

\* mutant of Fetch: LIMIT applied before ORDER BY
FetchLimitFirst(j, z, so) ==
  IF \E i \in DOMAIN j : j[i].zscore.err
  THEN [status |-> 500, rows |-> << >>]
  ELSE LET ids == Sorted(j, Truncate(Filter(j, so, z)))
       IN [status |-> 200, rows |-> [k \in DOMAIN ids |-> j[ids[k]]]]

\* the rows conn.fetch(sql, z) returns, or a failure of the statement
Fetch(j, z, so) ==
  IF \E i \in DOMAIN j : j[i].zscore.err
  THEN [status |-> 500, rows |-> << >>]
  ELSE LET ids == Truncate(Sorted(j, Filter(j, so, z)))
       IN [status |-> 200, rows |-> [k \in DOMAIN ids |-> j[ids[k]]]]

----------------------------------------------------------------------------
(* The HTTP handler *)

\* values of the query parameter z a client may send
ZParams == {-1, 0, 1, ZDen, ZDefault, ZMax, ZMax + 1}

NoResp == [status |-> 0, rows |-> << >>]

NoArg == [run |-> FALSE, z |-> 0]

\* mutant of Validate: the upper bound le=10.0 left out
ValidateNoUpper(q) ==
  IF ~q.given THEN [ok |-> TRUE, z |-> ZDefault]
  ELSE IF q.z >= ZMin THEN [ok |-> TRUE, z |-> q.z]
  ELSE [ok |-> FALSE, z |-> q.z]

\* z: float = Query(2.0, ge=0.0, le=10.0)
Validate(q) ==
  IF ~q.given THEN [ok |-> TRUE, z |-> ZDefault]
  ELSE IF q.z >= ZMin /\ q.z <= ZMax THEN [ok |-> TRUE, z |-> q.z]
  ELSE [ok |-> FALSE, z |-> q.z]

Handle(q) ==
  LET v == Validate(q)
      j == Joined(assets)
  IN /\ req' = q
     /\ repeated' = (resp.status # 0 /\ req = q)
     /\ IF v.ok
        THEN \E shift \in 0..MaxShift, rev \in BOOLEAN :
               /\ arg' = [run |-> TRUE, z |-> v.z]
               /\ resp' = Fetch(j, v.z, ScanOrder(Len(assets), shift, rev))
        ELSE /\ arg' = NoArg
             /\ resp' = [status |-> 422, rows |-> << >>]
     /\ UNCHANGED assets

\* GET /insights/anomalies
AnomaliesDefault == Handle([given |-> FALSE, z |-> 0])

\* GET /insights/anomalies?z=...
AnomaliesWithZ == \E z \in ZParams : Handle([given |-> TRUE, z |-> z])

Init ==
  /\ assets \in SmallTables \cup BigTables
  /\ req = [given |-> FALSE, z |-> 0]
  /\ arg = NoArg
  /\ resp = NoResp
  /\ repeated = FALSE

Next == AnomaliesDefault \/ AnomaliesWithZ

Spec == Init /\ [][Next]_vars

----------------------------------------------------------------------------
(* Vocabulary of the properties *)

Ok == resp.status = 200

\* the query's rows for every asset of the snapshot, returned or not
J == Joined(assets)

RowIds == {resp.rows[k].asset_id : k \in DOMAIN resp.rows}

\* the assets whose abs(zscore) reaches the threshold the query ran with
PassingOf(j) == {i \in DOMAIN assets : AbsGeq(j[i].zscore, arg.z)}

Passing == PassingOf(J)

Cohort(ty) == {i \in DOMAIN assets : assets[i].asset_type = ty}

Energy(i) == assets[i].actual_active_hours * assets[i].energy_consumed_per_hour

\* every member of the category has the same actual_energy
Uniform(ty) == \A a \in Cohort(ty), b \in Cohort(ty) : Energy(a) = Energy(b)

\* the sum of g(i) over the members i of the category
CohortSum(ty, g(_)) ==
  LET f[n \in 0..Len(assets)] ==
        IF n = 0 THEN 0
        ELSE f[n - 1] + (IF assets[n].asset_type = ty THEN g(n) ELSE 0)
  IN f[Len(assets)]

\* of a category: its size n, the total of actual_energy, and ss, the sum
\* over its members of (n * (actual_energy - mean)) squared
CohortStats(ty) ==
  LET n == Cardinality(Cohort(ty))
      total == CohortSum(ty, Energy)
      sqdev(i) == (n * Energy(i) - total) * (n * Energy(i) - total)
  IN [n |-> n, total |-> total, ss |-> CohortSum(ty, sqdev)]

Stats ==
  Materialized([ty \in {assets[i].asset_type : i \in DOMAIN assets} |->
                  CohortStats(ty)])

\* arithmetic mean of actual_energy over the category
MeanOf(st) == Rat(st.total, st.n)

\* population variance: the sum of squared deviations divided by N
PopVarianceOf(st) == Rat(st.ss, st.n * st.n * st.n)

\* a tie: another asset of the snapshot has the same abs(zscore)
Tied(j, r) ==
  \E i \in DOMAIN assets : i # r.asset_id /\ j[i].zscore.sq = r.zscore.sq

SameRequestAgain == req' = req /\ resp.status = 200 /\ resp'.status = 200

----------------------------------------------------------------------------
(* C1: every result returned by the anomaly detection has                  *)
(* abs(zscore) >= threshold, for every snapshot and threshold in [0, 10].  *)
C1_AbsAtLeastThreshold ==
  Ok => /\ arg.run /\ arg.z >= ZMin /\ arg.z <= ZMax
        /\ \A k \in DOMAIN resp.rows : AbsGeq(resp.rows[k].zscore, arg.z)

C1_Witness ==
  /\ Ok /\ arg.z > 0
  /\ resp.rows # << >>
  /\ Cardinality(RowIds) < Len(assets)

(* C2: when every category of a non-empty snapshot has at least two        *)
(* members with differing actual_energy, the abs(zscore) values of the     *)
(* returned list are non-increasing from first to last.                    *)
C2_Precondition ==
  /\ assets # << >>
  /\ \A i \in DOMAIN assets : ~Uniform(assets[i].asset_type)

C2_NonIncreasing ==
  (C2_Precondition /\ Ok) =>
    \A k \in DOMAIN resp.rows :
      k > 1 => ~AbsGreater(resp.rows[k].zscore, resp.rows[k - 1].zscore)

C2_Witness ==
  /\ C2_Precondition /\ Ok
  /\ Len(resp.rows) >= 3
  /\ resp.rows[1].zscore.sgn = -1
  /\ AbsGreater(resp.rows[1].zscore, resp.rows[Len(resp.rows)].zscore)

(* C3: the returned list never has more than 50 elements.                  *)
C3_AtMostLimit == Len(resp.rows) <= 50

C3_Witness == Ok /\ Len(resp.rows) = 50 /\ Cardinality(Passing) > 50

(* C4: in a category whose population standard deviation is 0 (all members *)
(* have equal actual_energy; every singleton category), each member's      *)
(* zscore is exactly 0, no division by the standard deviation takes place  *)
(* (the statement does not fail), and the member is excluded from the      *)
(* result unless threshold = 0.                                            *)
C4_ZeroVariance ==
  \A i \in DOMAIN assets :
    Uniform(assets[i].asset_type) =>
      /\ resp.status # 500
      /\ \A k \in DOMAIN resp.rows :
           resp.rows[k].asset_id = i =>
             /\ resp.rows[k].zscore = ZeroScore
             /\ resp.rows[k].std_kwh = Sqrt(RatOfInt(0))
      /\ (Ok /\ arg.z > 0) => i \notin RowIds
      /\ (Ok /\ arg.z = 0 /\ Len(assets) <= 50) => i \in RowIds

C4_Witness ==
  /\ Ok /\ arg.z = 0
  /\ \E i \in RowIds, k \in RowIds :
       /\ Cohort(assets[i].asset_type) = {i}
       /\ Uniform(assets[k].asset_type)
       /\ Cardinality(Cohort(assets[k].asset_type)) > 1

(* C5: in every returned result avg_kwh and std_kwh are the arithmetic     *)
(* mean and the population standard deviation (squared deviations divided  *)
(* by N) of actual_active_hours * energy_consumed_per_hour over all assets *)
(* of the result's category, the asset included, other categories          *)
(* excluded, and the zscore is computed from exactly these two values.     *)
C5_PeerStatistics ==
  LET stats == Stats
  IN \A k \in DOMAIN resp.rows :
       LET r == resp.rows[k]
           st == stats[assets[r.asset_id].asset_type]
           dev == st.n * Energy(r.asset_id) - st.total
       IN /\ r.asset_type = assets[r.asset_id].asset_type
          /\ r.actual_kwh = Energy(r.asset_id)
          /\ r.avg_kwh = MeanOf(st)
          /\ r.std_kwh.sq = PopVarianceOf(st)
          /\ r.zscore.err = FALSE
          /\ st.ss = 0 => r.zscore.sgn = 0 /\ r.zscore.sq = RatOfInt(0)
          /\ st.ss > 0 => /\ r.zscore.sgn = Sign(dev)
                          /\ r.zscore.sq = Rat(dev * dev * st.n, st.ss)

C5_Witness ==
  /\ Ok
  /\ LET stats == Stats
     IN \E a \in RowIds, b \in RowIds :
          LET sa == stats[assets[a].asset_type]
              sb == stats[assets[b].asset_type]
          IN /\ assets[a].asset_type # assets[b].asset_type
             /\ sa.ss > 0 /\ sb.ss > 0
             /\ MeanOf(sa) # MeanOf(sb)
             /\ PopVarianceOf(sa) # PopVarianceOf(sb)

(* C6, as stated: z defaults to 2.0, and a supplied z outside [0.0, 10.0]  *)
(* is clamped: the request is served as if z were the nearest bound.       *)
C6_Clamped ==
  (resp.status # 0 /\ req.given) =>
    /\ Ok /\ arg.run
    /\ arg.z = (IF req.z < ZMin THEN ZMin
                ELSE IF req.z > ZMax THEN ZMax ELSE req.z)

(* C6, amended: z defaults to 2.0; a supplied z outside [0.0, 10.0] is     *)
(* rejected with status 422 and the query is not run; the query only ever  *)
(* runs with a threshold in [0.0, 10.0].                                   *)
C6_Rejected ==
  /\ (resp.status # 0 /\ ~req.given) =>
       Ok /\ arg.run /\ arg.z = 2 * ZDen
  /\ (resp.status # 0 /\ req.given /\ req.z >= 0 /\ req.z <= 10 * ZDen) =>
       Ok /\ arg.run /\ arg.z = req.z
  /\ (resp.status # 0 /\ req.given /\ (req.z < 0 \/ req.z > 10 * ZDen)) =>
       resp.status = 422 /\ ~arg.run /\ resp.rows = << >>
  /\ arg.run => arg.z >= 0 /\ arg.z <= 10 * ZDen

C6_Witness ==
  req.given /\ req.z > 10 * ZDen /\ resp.status = 422 /\ assets # << >>

(* C7, as stated: two invocations on the same snapshot with the same       *)
(* threshold return the same ordered result sequence, ties and more than   *)
(* 50 passing assets included.                                             *)
C7_SameSequence == [][SameRequestAgain => resp' = resp]_vars

(* C7, amended: two invocations on the same snapshot with the same         *)
(* threshold return sequences of the same length whose abs(zscore) values  *)
(* agree position by position, and an asset whose abs(zscore) no other     *)
(* asset of the snapshot shares is at the same position in both results or *)
(* in neither.                                                             *)
C7_SameScores ==
  [][SameRequestAgain =>
       LET j == J
       IN /\ Len(resp'.rows) = Len(resp.rows)
          /\ \A k \in DOMAIN resp.rows :
               /\ resp'.rows[k].zscore.sq = resp.rows[k].zscore.sq
               /\ ~Tied(j, resp.rows[k]) => resp'.rows[k] = resp.rows[k]
               /\ ~Tied(j, resp'.rows[k]) => resp'.rows[k] = resp.rows[k]]_vars

C7_Witness ==
  /\ repeated /\ Ok
  /\ Cardinality(Passing) > 50
  /\ LET j == J
     IN /\ \E k \in DOMAIN resp.rows : Tied(j, resp.rows[k])
        /\ \E k \in DOMAIN resp.rows : ~Tied(j, resp.rows[k])

(* C8: for three assets A, B, C of one category with actual_energy 10, 10  *)
(* and 100 the mean is 40, zscore(C) = +sqrt(2) (about +1.414) and         *)
(* zscore(A) = zscore(B) = -sqrt(1/2) (about -0.707); with threshold 1.0   *)
(* the result contains C and only C.                                       *)
C8_Snapshot ==
  /\ Len(assets) = 3
  /\ assets[1].asset_type = assets[2].asset_type
  /\ assets[2].asset_type = assets[3].asset_type
  /\ Energy(1) = 10 /\ Energy(2) = 10 /\ Energy(3) = 100

C8_RoundTrip ==
  (C8_Snapshot /\ Ok) =>
    /\ \A k \in DOMAIN resp.rows :
         LET r == resp.rows[k]
         IN /\ r.avg_kwh = [n |-> 40, d |-> 1]
            /\ r.std_kwh.sq = [n |-> 1800, d |-> 1]
            /\ r.asset_id = 3 =>
                 r.zscore.sgn = 1 /\ r.zscore.sq = [n |-> 2, d |-> 1]
            /\ r.asset_id # 3 =>
                 r.zscore.sgn = -1 /\ r.zscore.sq = [n |-> 1, d |-> 2]
    /\ arg.z = 0 => RowIds = {1, 2, 3} /\ resp.rows[1].asset_id = 3
    /\ arg.z = ZDen => Len(resp.rows) = 1 /\ resp.rows[1].asset_id = 3

C8_Witness == C8_Snapshot /\ Ok /\ arg.z = ZDen /\ Len(resp.rows) = 1

(* C9: an empty snapshot gives the empty result for every threshold and no *)
(* error; a non-empty snapshot where no asset has abs(zscore) >= threshold *)
(* gives the empty result too.                                             *)
C9_EmptyResult ==
  /\ (assets = << >> /\ arg.run) => Ok /\ resp.rows = << >>
  /\ (arg.run /\ Passing = {}) => Ok /\ resp.rows = << >>

C9_Witness ==
  /\ Ok /\ assets # << >> /\ Passing = {} /\ resp.rows = << >>
  /\ LET j == J IN \E i \in DOMAIN assets : j[i].zscore.sgn # 0

(* C10: sorting precedes truncation: with k assets passing the filter the  *)
(* result holds exactly min(50, k) distinct passing assets, and no passing *)
(* asset left out has an abs(zscore) strictly greater than that of a       *)
(* returned asset.                                                         *)
C10_SortThenTruncate ==
  Ok =>
    LET j == J
        passing == PassingOf(j)
    IN /\ Len(resp.rows) = Min(50, Cardinality(passing))
       /\ Cardinality(RowIds) = Len(resp.rows)
       /\ RowIds \subseteq passing
       /\ \A i \in passing \ RowIds, k \in DOMAIN resp.rows :
            ~AbsGreater(j[i].zscore, resp.rows[k].zscore)

C10_Witness ==
  /\ Ok
  /\ Cardinality(Passing) > 50
  /\ AbsGreater(resp.rows[1].zscore, resp.rows[Len(resp.rows)].zscore)
  /\ LET j == J
     IN \E i \in PassingOf(j) \ RowIds :
          AbsGreater(resp.rows[1].zscore, j[i].zscore)

====
